---- MODULE Spec2Model ----
(***************************************************************************)
(* The MGRS wrapper class of mgrs/__init__.py as a state machine.          *)
(*                                                                         *)
(* A string is a sequence of one-character strings.  The class MGRS is     *)
(* mgrs/__init__.py; the native conversion routines it reaches through     *)
(* core.rt (Convert_MGRS_To_UTM, Convert_UTM_To_MGRS,                      *)
(* Convert_Geodetic_To_MGRS) are described from sections 3, 4.2, 4.5, 4.6  *)
(* and 7 of the design specification.                                      *)
(***************************************************************************)
EXTENDS Integers, Sequences, FiniteSets, TLC

VARIABLES ref, res, hashSeed

vars == <<ref, res, hashSeed>>

(***************************************************************************)
(* Characters and Python string primitives                                 *)
(***************************************************************************)
DigitChars == <<"0", "1", "2", "3", "4", "5", "6", "7", "8", "9">>

LetterChars == <<"A", "B", "C", "D", "E", "F", "G", "H", "I", "J", "K", "L", "M",
                 "N", "O", "P", "Q", "R", "S", "T", "U", "V", "W", "X", "Y", "Z">>

\* code points in increasing order: digits come before upper-case letters
CodePoints == DigitChars \o LetterChars

Ord(c) == CHOOSE i \in 1..Len(CodePoints) : CodePoints[i] = c

DigitSet == {DigitChars[i] : i \in 1..Len(DigitChars)}

LetterSet == {LetterChars[i] : i \in 1..Len(LetterChars)}

IsDigit(c) == c \in DigitSet

IsAlpha(c) == c \in LetterSet

DigitValue(c) == (CHOOSE i \in 1..Len(DigitChars) : DigitChars[i] = c) - 1

Min2(a, b) == IF a < b THEN a ELSE b

Max2(a, b) == IF a > b THEN a ELSE b

\* s[:stop] of Python: a negative stop counts from the end, out-of-range stops clamp
SliceTo(s, stop) ==
    LET n == IF stop >= 0 THEN Min2(stop, Len(s)) ELSE Max2(Len(s) + stop, 0)
    IN  SubSeq(s, 1, n)

\* s[start:] for 0 <= start
SliceFrom(s, start) == SubSeq(s, Min2(start, Len(s)) + 1, Len(s))

\* value of a run of decimal digits (0 for the empty run)
RECURSIVE DecimalValue(_)
DecimalValue(s) ==
    IF Len(s) = 0 THEN 0
    ELSE 10 * DecimalValue(SubSeq(s, 1, Len(s) - 1)) + DigitValue(s[Len(s)])

\* str < str of Python: lexicographic by code point, a proper prefix is smaller
RECURSIVE StrLess(_, _)
StrLess(a, b) ==
    IF Len(b) = 0 THEN FALSE
    ELSE IF Len(a) = 0 THEN TRUE
    ELSE IF a[1] # b[1] THEN Ord(a[1]) < Ord(b[1])
    ELSE StrLess(Tail(a), Tail(b))

RECURSIVE Pow10(_)
Pow10(k) == IF k <= 0 THEN 1 ELSE 10 * Pow10(k - 1)

(***************************************************************************)
(* The native library behind core.rt, from the specification               *)
(***************************************************************************)
\* section 3: precision is in [0, 5]
MaxPrecision == 5

\* section 3: UTM zone numbers are 1..60
MaxZone == 60

\* section 4.5: grid squares are 100,000 m wide
SquareSize == 100000

\* section 4.5: the row alphabet has 20 letters and repeats
RowCycle == 20

\* section 4.5: even zones start the row alphabet 5 letters later (at F)
EvenZoneRowOffset == 5

\* section 4.2: latitude bands C..X without I and O, southernmost first
BandLetters == <<"C", "D", "E", "F", "G", "H", "J", "K", "L", "M",
                 "N", "P", "Q", "R", "S", "T", "U", "V", "W", "X">>

\* section 4.5: the 24 grid letters (no I, no O); the first 20 name the rows
GridLetters == <<"A", "B", "C", "D", "E", "F", "G", "H", "J", "K", "L", "M",
                 "N", "P", "Q", "R", "S", "T", "U", "V", "W", "X", "Y", "Z">>

\* section 4.5: UPS references open with a pole letter instead of zone and band
PoleLetters == <<"A", "B", "Y", "Z">>

InSeq(c, s) == \E i \in 1..Len(s) : s[i] = c

IndexIn(c, s) == CHOOSE i \in 1..Len(s) : s[i] = c

\* section 4.5: the eight column letters of a zone (the set repeats every 3 zones)
ColumnLetters(zone) == SubSeq(GridLetters, 8 * ((zone - 1) % 3) + 1, 8 * ((zone - 1) % 3) + 8)

RowLetters == SubSeq(GridLetters, 1, RowCycle)

\* section 4.5: "letter combination not present in the alphabet-offset table for that zone"
InTable(zone, col, row) == InSeq(col, ColumnLetters(zone)) /\ InSeq(row, RowLetters)

\* length of the longest prefix of s made of characters satisfying P
RunLength(s, P(_)) ==
    CHOOSE k \in 0..Len(s) :
        /\ \A i \in 1..k : P(s[i])
        /\ (k < Len(s) => ~P(s[k + 1]))

NoError == {}

\* Op applied to the value of v (v is evaluated once)
With(v, Op(_)) == CHOOSE r \in {Op(x) : x \in {v}} : TRUE

Malformed ==
    [err |-> {"MalformedReference"}, ups |-> FALSE, zone |-> 0, band |-> "", col |-> "",
     row |-> "", eastingDigits |-> <<>>, northingDigits |-> <<>>, precision |-> 0]

\* the token split as zlen zone digits, three letters, and the digit run
DecodeFields(s, zlen) ==
    LET letters == SubSeq(s, zlen + 1, zlen + 3)
        digits  == SliceFrom(s, zlen + 3)
        prec    == Len(digits) \div 2
        zone    == DecimalValue(SubSeq(s, 1, zlen))
        ups     == zlen = 0
    IN  IF \/ zlen \notin {0, 2}
           \/ Len(s) < zlen + 3
           \/ \E i \in 1..3 : ~IsAlpha(letters[i])
           \/ \E i \in 1..Len(digits) : ~IsDigit(digits[i])
           \/ Len(digits) % 2 # 0
           \/ prec > MaxPrecision
        THEN Malformed
        ELSE IF \/ ~InSeq(letters[1], IF ups THEN PoleLetters ELSE BandLetters)
                \/ ~InSeq(letters[2], GridLetters)
                \/ ~InSeq(letters[3], GridLetters)
        THEN Malformed
        ELSE IF ~ups /\ zone \notin 1..MaxZone
        THEN [Malformed EXCEPT !.err = {"InvalidZone"}]
        ELSE IF ~ups /\ ~InTable(zone, letters[2], letters[3])
        THEN Malformed
        ELSE [err |-> NoError, ups |-> ups, zone |-> zone,
              band |-> letters[1], col |-> letters[2], row |-> letters[3],
              eastingDigits |-> SubSeq(digits, 1, prec),
              northingDigits |-> SubSeq(digits, prec + 1, Len(digits)),
              precision |-> prec]

\* section 4.5, decoding: zone number (or pole letter), band, column and row
\* letters, digit pairs; anything else is MalformedReference
DecodeReference(s) == With(RunLength(s, IsDigit), LAMBDA zlen : DecodeFields(s, zlen))

NoUtm ==
    [zone |-> 0, hemisphere |-> "",
     easting |-> [square |-> "", offset |-> 0], northing |-> [square |-> "", offset |-> 0]]

\* the UTM coordinate of a decoded reference d: the grid square named by the
\* letters plus the decoded offset in metres (the origin of the square)
UtmOfDecoded(d) ==
    IF d.err # NoError THEN [err |-> d.err] @@ NoUtm
    ELSE IF d.ups THEN [err |-> {"InvalidZone"}] @@ NoUtm
    ELSE [err |-> NoError, zone |-> d.zone,
          hemisphere |-> IF IndexIn(d.band, BandLetters) <= 10 THEN "S" ELSE "N",
          easting |-> [square |-> d.col,
                       offset |-> DecimalValue(d.eastingDigits)
                                  * Pow10(MaxPrecision - d.precision)],
          northing |-> [square |-> d.row,
                        offset |-> DecimalValue(d.northingDigits)
                                   * Pow10(MaxPrecision - d.precision)]]

\* sections 4.5 and 4.6, mgrsToUtm: a reference without a zone in 1..60 (a UPS
\* reference) has no UTM coordinates
Convert_MGRS_To_UTM(s) == With(DecodeReference(s), UtmOfDecoded)

\* v as exactly p decimal digits, zero-padded on the left
RECURSIVE PadDigits(_, _)
PadDigits(v, p) ==
    IF p <= 0 THEN <<>>
    ELSE Append(PadDigits(v \div 10, p - 1), DigitChars[(v % 10) + 1])

\* section 4.5: the offset inside the 100 km square, truncated to p digits
EncodeDigits(metres, p) == PadDigits((metres % SquareSize) \div Pow10(MaxPrecision - p), p)

\* section 4.5: column letter of the square holding an easting
ColumnLetter(zone, easting) == ColumnLetters(zone)[easting \div SquareSize]

\* section 4.5: row letter of the square holding a northing; the alphabet
\* starts at A in odd zones and at F in even zones
RowLetter(zone, northing) ==
    RowLetters[(((northing \div SquareSize)
                 + (IF zone % 2 = 0 THEN EvenZoneRowOffset ELSE 0)) % RowCycle) + 1]

\* how many bands of a hemisphere, counted from the equator, the encoder may name
BandChoices == 1

\* section 4.2: the bands of a hemisphere (C..M south, N..X north)
HemisphereBands(hemisphere) ==
    IF hemisphere = "S" THEN {BandLetters[i] : i \in Max2(1, 11 - BandChoices)..10}
    ELSE {BandLetters[i] : i \in 11..Min2(20, 10 + BandChoices)}

\* section 3: eastings and northings a UTM zone can hold, in metres
MinEasting == 100000

MaxEasting == 899999

MaxNorthing == 10000000

NoOutput == <<>>

\* section 4.6, utmToMgrs: validates precision and zone, then encodes.  The band
\* letter comes from the latitude of the point (inverse projection, not
\* modelled): every band of the hemisphere is a possible outcome.
Convert_UTM_To_MGRS(zone, hemisphere, easting, northing, precision) ==
    LET err == (IF zone \in 1..MaxZone THEN {} ELSE {"InvalidZone"})
               \cup (IF precision \in 0..MaxPrecision THEN {} ELSE {"InvalidPrecision"})
               \cup (IF /\ easting \in MinEasting..MaxEasting
                        /\ northing \in 0..MaxNorthing
                     THEN {} ELSE {"OutOfProjectionRange"})
    IN  IF err # NoError
        THEN {[err |-> err, out |-> NoOutput]}
        ELSE {[err |-> NoError,
               out |-> PadDigits(zone, 2)
                       \o <<band, ColumnLetter(zone, easting), RowLetter(zone, northing)>>
                       \o EncodeDigits(easting, precision)
                       \o EncodeDigits(northing, precision)] :
              band \in HemisphereBands(hemisphere)}

\* Angles are fixed-point: one unit is 1/(113*180) rad, pi is 355/113, so one
\* degree is 355 units.
UnitsPerDegree == 355

\* core.TO_RADIANS
TO_RADIANS(degrees) == degrees * UnitsPerDegree

\* section 4.2: UTM is valid from 80 S to 84 N
UtmSouthLimit == -80

UtmNorthLimit == 84

\* section 4.2: bands are 8 degrees tall, the northernmost (X, from 72 N) is 12
BandHeight == 8

LastBandFloor == 72

\* section 4.2: zones are 6 degrees wide
ZoneWidth == 6

Deg(d) == d * UnitsPerDegree

\* section 4.2: latitude band letter, for latitudes inside the UTM envelope
LatitudeBand(lat) ==
    IF lat >= Deg(LastBandFloor) THEN BandLetters[Len(BandLetters)]
    ELSE BandLetters[((lat - Deg(UtmSouthLimit)) \div Deg(BandHeight)) + 1]

\* section 3: longitude normalised to (-pi, pi]
NormalizeLongitude(lon) == IF lon > Deg(180) THEN lon - Deg(360) ELSE lon

\* section 4.2: base zone, then the Norway and Svalbard rectangles
ZoneOf(lat, lon) ==
    LET l    == NormalizeLongitude(lon)
        base == ((l + Deg(180)) \div Deg(ZoneWidth)) + 1
        zone == IF base > MaxZone THEN 1 ELSE base
    IN  IF lat >= Deg(56) /\ lat < Deg(64) /\ l >= Deg(3) /\ l < Deg(12) THEN 32
        ELSE IF lat >= Deg(LastBandFloor) /\ l >= Deg(0) /\ l < Deg(9) THEN 31
        ELSE IF lat >= Deg(LastBandFloor) /\ l >= Deg(9) /\ l < Deg(21) THEN 33
        ELSE IF lat >= Deg(LastBandFloor) /\ l >= Deg(21) /\ l < Deg(33) THEN 35
        ELSE IF lat >= Deg(LastBandFloor) /\ l >= Deg(33) /\ l < Deg(42) THEN 37
        ELSE zone

\* Planar positions the projectors may yield, in metres.  The projections
\* themselves (sections 4.3, 4.4) are real-valued series and are not modelled:
\* the encoder is applied to every sample.
ProjectedSamples == {<<512345, 4167890>>, <<400009, 90>>}

\* Grid squares of a UPS region the polar encoder may name
UpsSquares == {<<"A", "H">>, <<"J", "Z">>}

\* section 4.2: pole letter of a UPS region (A, B south; Y, Z north; by longitude sign)
PoleLetter(lat, lon) ==
    IF lat > 0 THEN (IF NormalizeLongitude(lon) < 0 THEN "Y" ELSE "Z")
    ELSE (IF NormalizeLongitude(lon) < 0 THEN "A" ELSE "B")

\* section 4.6, geodeticToMgrs: validates, resolves zone/band or the UPS pole
\* region, projects and encodes
Convert_Geodetic_To_MGRS(lat, lon, precision) ==
    LET err == (IF /\ lat >= Deg(-90) /\ lat <= Deg(90)
                   /\ lon >= Deg(-180) /\ lon <= Deg(360)
                THEN {} ELSE {"OutOfRange"})
               \cup (IF precision \in 0..MaxPrecision THEN {} ELSE {"InvalidPrecision"})
    IN  IF err # NoError
        THEN {[err |-> err, out |-> NoOutput]}
        ELSE IF lat > Deg(UtmNorthLimit) \/ lat < Deg(UtmSouthLimit)
        THEN {[err |-> NoError,
               out |-> <<PoleLetter(lat, lon)>> \o sq
                       \o EncodeDigits(en[1], precision)
                       \o EncodeDigits(en[2], precision)] :
              sq \in UpsSquares, en \in ProjectedSamples}
        ELSE {[err |-> NoError,
               out |-> PadDigits(ZoneOf(lat, lon), 2)
                       \o <<LatitudeBand(lat),
                            ColumnLetter(ZoneOf(lat, lon), en[1]),
                            RowLetter(ZoneOf(lat, lon), en[2])>>
                       \o EncodeDigits(en[1], precision)
                       \o EncodeDigits(en[2], precision)] :
              en \in ProjectedSamples}

(***************************************************************************)
(* class MGRS (mgrs/__init__.py)                                           *)
(*                                                                         *)
(* A call either returns a value or raises: [outcome, kinds, value], where *)
(* outcome is "ok" or the exception class and kinds the native error kinds.*)
(***************************************************************************)
Return(v) == [outcome |-> "ok", kinds |-> {}, value |-> v]

Raise(exception, kinds) == [outcome |-> exception, kinds |-> kinds, value |-> <<>>]

\* core.rt reports a native error code as core.MGRSError (section 7: a failed
\* conversion yields no value)
rt_check(r) == IF r.err # NoError THEN Raise("MGRSError", r.err) ELSE Return(r)

to_utm(mgrs) ==
    With(rt_check(Convert_MGRS_To_UTM(mgrs)),
         LAMBDA c : IF c.outcome # "ok" THEN c
                    ELSE Return(<<c.value.zone, c.value.hemisphere,
                                  c.value.easting, c.value.northing>>))

\* variant: a constructor that keeps the string without the to_utm call
MGRS_init_unchecked(mgrs) == Return(mgrs)

\* MGRS.__init__: keeps the string, then the dummy to_utm call raises if it is ill-formed
MGRS_init(mgrs) ==
    With(to_utm(mgrs), LAMBDA r : IF r.outcome # "ok" THEN r ELSE Return(mgrs))

\* hash(str): a keyed hash onto a finite range; the key is drawn per process
RECURSIVE StrHash(_, _, _)
StrHash(s, key, range) ==
    IF Len(s) = 0 THEN key % range
    ELSE (31 * StrHash(SubSeq(s, 1, Len(s) - 1), key, range) + Ord(s[Len(s)])) % range

\* size of the hash range, and the largest key
HashRange == 3

MaxSeed == 1

MGRS_hash(mgrs) == StrHash(mgrs, hashSeed, HashRange)

\* Python values handed to the comparison operators
Obj(mgrs) == [type |-> "MGRS", mgrs |-> mgrs]

Str(s) == [type |-> "str", mgrs |-> s]

Flag(b) == [outcome |-> "ok", kinds |-> {}, value |-> b]

MGRS_eq(self, otherObj) ==
    IF otherObj.type # "MGRS" THEN Raise("TypeError", {})
    ELSE Flag(MGRS_hash(self) = MGRS_hash(otherObj.mgrs))

MGRS_lt(self, otherObj) ==
    IF otherObj.type # "MGRS" THEN Raise("TypeError", {})
    ELSE Flag(StrLess(self, otherObj.mgrs))

MGRS_le(self, otherObj) ==
    IF otherObj.type # "MGRS" THEN Raise("TypeError", {})
    ELSE Flag(StrLess(self, otherObj.mgrs) \/ self = otherObj.mgrs)

MGRS_gt(self, otherObj) ==
    IF otherObj.type # "MGRS" THEN Raise("TypeError", {})
    ELSE Flag(StrLess(otherObj.mgrs, self))

MGRS_ge(self, otherObj) ==
    IF otherObj.type # "MGRS" THEN Raise("TypeError", {})
    ELSE Flag(StrLess(otherObj.mgrs, self) \/ self = otherObj.mgrs)

\* variant: len(self.mgrs) - 5 // 2
precision_unparenthesised(mgrs) == Len(mgrs) - (5 \div 2)

\* (len(self.mgrs) - 5) // 2, floor division
precision(mgrs) == (Len(mgrs) - 5) \div 2

\* int(text): decimal digits only, ValueError otherwise
PyInt(text) ==
    IF Len(text) > 0 /\ \A i \in 1..Len(text) : IsDigit(text[i])
    THEN Return(DecimalValue(text))
    ELSE Raise("ValueError", {})

\* text[i], 0-based, IndexError past the end
PyIndex(text, i) ==
    IF i < Len(text) THEN Return(text[i + 1]) ELSE Raise("IndexError", {})

utm_zone(mgrs) == PyInt(SliceTo(mgrs, 2))

utm_letter(mgrs) == PyIndex(mgrs, 2)

easting_letter(mgrs) == PyIndex(mgrs, 3)

northing_letter(mgrs) == PyIndex(mgrs, 4)

\* variant: the guard lets a precision one above the current one through
with_precision_loose_guard(mgrs, p) ==
    IF p > precision(mgrs) + 1 THEN Raise("ValueError", {"Cannot increase precision"})
    ELSE MGRS_init(SliceTo(mgrs, 5 + 2 * p))

\* variant: the slice counts a 3-character head (as in a reference without zone digits)
with_precision_head3(mgrs, p) ==
    IF p > precision(mgrs) THEN Raise("ValueError", {"Cannot increase precision"})
    ELSE MGRS_init(SliceTo(mgrs, 3 + 2 * p))

\* variant: the slice counts a 4-character head
with_precision_head4(mgrs, p) ==
    IF p > precision(mgrs) THEN Raise("ValueError", {"Cannot increase precision"})
    ELSE MGRS_init(SliceTo(mgrs, 4 + 2 * p))

with_precision(mgrs, p) ==
    IF p > precision(mgrs) THEN Raise("ValueError", {"Cannot increase precision"})
    ELSE MGRS_init(SliceTo(mgrs, 5 + 2 * p))

\* cls(buffer) once core.rt has let the native result through
Built(c) == IF c.outcome # "ok" THEN c ELSE MGRS_init(c.value.out)

\* variant: the precision argument is not forwarded (the native default of 5 is used)
from_utm_default_precision(zone, hemisphere, easting, northing, p) ==
    {Built(rt_check(r)) :
        r \in Convert_UTM_To_MGRS(zone, hemisphere, easting, northing, MaxPrecision)}

\* the set of outcomes of the call (one per outcome of the native routine)
from_utm(zone, hemisphere, easting, northing, p) ==
    {Built(rt_check(r)) :
        r \in Convert_UTM_To_MGRS(zone, hemisphere, easting, northing, p)}

from_lat_lon(latitude, longitude, in_degrees, p) ==
    LET lat == IF in_degrees THEN TO_RADIANS(latitude) ELSE latitude
        lon == IF in_degrees THEN TO_RADIANS(longitude) ELSE longitude
    IN  {Built(rt_check(r)) : r \in Convert_Geodetic_To_MGRS(lat, lon, p)}

\* cls(mgrs).to_utm() under try / except core.MGRSError
is_valid(mgrs) ==
    With(With(MGRS_init(mgrs),
              LAMBDA made : IF made.outcome = "ok" THEN to_utm(made.value) ELSE made),
         LAMBDA r : IF r.outcome = "ok" THEN Flag(TRUE)
                    ELSE IF r.outcome = "MGRSError" THEN Flag(FALSE)
                    ELSE r)

(***************************************************************************)
(* The program: one bound reference, the last call and its outcome         *)
(***************************************************************************)
\* ref before any object is constructed
None == <<"None">>

\* the tokens callers hand to MGRS(...) and MGRS.is_valid(...)
Tokens == {<<"3", "1", "U", "D", "Q">>,
           <<"3", "1", "U", "D", "Q", "1", "2", "3", "4">>,
           <<"3", "1", "U", "D", "Q", "1", "2", "3", "4", "5", "6", "7", "8", "9", "0">>,
           <<"0", "4", "Q", "F", "J", "1", "2">>,
           <<"3", "1", "Q">>,
           <<"3", "1", "Q", "D", "O">>,
           <<"3", "1", "I", "D", "Q">>,
           <<"3", "1", "U", "S", "Q">>,
           <<"3", "1", "U", "D", "Q", "1", "2", "3">>,
           <<"3", "1", "U", "D", "Q", "1", "A">>,
           <<"3", "1", "U", "D", "Q", "1", "2", "3", "4", "5", "6", "7", "8", "9", "0", "1", "2">>,
           <<"6", "1", "U", "D", "Q">>,
           <<"4", "Q", "F", "J", "1", "2">>,
           <<"Z", "A", "H", "1", "2", "3", "4">>,
           <<>>}

\* how far below zero a requested precision goes
MaxNegative == 5

PrecisionInputs == (0 - MaxNegative)..(MaxPrecision + 1)

EncodePrecisionInputs == {-1, 0, 2, 5, 6}

ZoneInputs == {0, 31, 61}

HemisphereInputs == {"N", "S"}

\* latitude and longitude (in degrees here), and whether the caller passes degrees
GeoInputs == {<<0, 3, TRUE>>, <<84, 3, TRUE>>, <<85, 3, TRUE>>, <<91, 3, TRUE>>,
              <<-85, 3, TRUE>>, <<90, -3, FALSE>>, <<60, 5, FALSE>>}

Call(op, args, r) == [op |-> op, args |-> args] @@ r

Init ==
    /\ ref = None
    /\ res = Call("none", <<>>, Return(<<>>))
    /\ hashSeed \in 0..MaxSeed

\* ref = MGRS(token)
Construct(token) ==
    /\ \E r \in {MGRS_init(token)} :
          /\ res' = Call("MGRS", [mgrs |-> token], r)
          /\ ref' = IF r.outcome = "ok" THEN r.value ELSE ref
    /\ UNCHANGED hashSeed

\* MGRS.is_valid(token)
IsValid(token) ==
    /\ res' = Call("is_valid", [mgrs |-> token], is_valid(token))
    /\ UNCHANGED <<ref, hashSeed>>

\* ref = ref.with_precision(p)
WithPrecision(p) ==
    /\ ref # None
    /\ \E r \in {with_precision(ref, p)} :
          /\ res' = Call("with_precision", [self |-> ref, precision |-> p], r)
          /\ ref' = IF r.outcome = "ok" THEN r.value ELSE ref
    /\ UNCHANGED hashSeed

\* ref = MGRS.from_utm(zone, hemisphere, easting, northing, p)
FromUtm(zone, hemisphere, easting, northing, p) ==
    /\ \E r \in from_utm(zone, hemisphere, easting, northing, p) :
          /\ res' = Call("from_utm",
                         [zone |-> zone, hemisphere |-> hemisphere, easting |-> easting,
                          northing |-> northing, precision |-> p], r)
          /\ ref' = IF r.outcome = "ok" THEN r.value ELSE ref
    /\ UNCHANGED hashSeed

\* ref = MGRS.from_lat_lon(latitude, longitude, in_degrees, p)
FromLatLon(latitude, longitude, in_degrees, p) ==
    /\ \E r \in from_lat_lon(latitude, longitude, in_degrees, p) :
          /\ res' = Call("from_lat_lon",
                         [latitude |-> latitude, longitude |-> longitude,
                          in_degrees |-> in_degrees, precision |-> p], r)
          /\ ref' = IF r.outcome = "ok" THEN r.value ELSE ref
    /\ UNCHANGED hashSeed

\* ref.to_utm()
ToUtm ==
    /\ ref # None
    /\ res' = Call("to_utm", [self |-> ref], to_utm(ref))
    /\ UNCHANGED <<ref, hashSeed>>

\* the right-hand operands of a comparison: another MGRS object, or a plain str
Operands ==
    {Obj(t) : t \in {u \in Tokens : MGRS_init(u).outcome = "ok"}} \cup {Str(<<"3", "1">>)}

Eq(operand) ==
    /\ ref # None
    /\ res' = Call("eq", [self |-> ref, other |-> operand], MGRS_eq(ref, operand))
    /\ UNCHANGED <<ref, hashSeed>>

Lt(operand) ==
    /\ ref # None
    /\ res' = Call("lt", [self |-> ref, other |-> operand], MGRS_lt(ref, operand))
    /\ UNCHANGED <<ref, hashSeed>>

Le(operand) ==
    /\ ref # None
    /\ res' = Call("le", [self |-> ref, other |-> operand], MGRS_le(ref, operand))
    /\ UNCHANGED <<ref, hashSeed>>

Gt(operand) ==
    /\ ref # None
    /\ res' = Call("gt", [self |-> ref, other |-> operand], MGRS_gt(ref, operand))
    /\ UNCHANGED <<ref, hashSeed>>

Ge(operand) ==
    /\ ref # None
    /\ res' = Call("ge", [self |-> ref, other |-> operand], MGRS_ge(ref, operand))
    /\ UNCHANGED <<ref, hashSeed>>

Precision ==
    /\ ref # None
    /\ res' = Call("precision", [self |-> ref], Return(precision(ref)))
    /\ UNCHANGED <<ref, hashSeed>>

UtmZone ==
    /\ ref # None
    /\ res' = Call("utm_zone", [self |-> ref], utm_zone(ref))
    /\ UNCHANGED <<ref, hashSeed>>

UtmLetter ==
    /\ ref # None
    /\ res' = Call("utm_letter", [self |-> ref], utm_letter(ref))
    /\ UNCHANGED <<ref, hashSeed>>

EastingLetter ==
    /\ ref # None
    /\ res' = Call("easting_letter", [self |-> ref], easting_letter(ref))
    /\ UNCHANGED <<ref, hashSeed>>

NorthingLetter ==
    /\ ref # None
    /\ res' = Call("northing_letter", [self |-> ref], northing_letter(ref))
    /\ UNCHANGED <<ref, hashSeed>>

Next ==
    \/ \E token \in Tokens : Construct(token)
    \/ \E token \in Tokens : IsValid(token)
    \/ \E p \in PrecisionInputs : WithPrecision(p)
    \/ \E zone \in ZoneInputs, hemisphere \in HemisphereInputs, en \in ProjectedSamples,
          p \in EncodePrecisionInputs : FromUtm(zone, hemisphere, en[1], en[2], p)
    \/ \E g \in GeoInputs, p \in EncodePrecisionInputs :
          FromLatLon(IF g[3] THEN g[1] ELSE Deg(g[1]),
                     IF g[3] THEN g[2] ELSE Deg(g[2]), g[3], p)
    \/ ToUtm
    \/ \E operand \in Operands : Eq(operand)
    \/ \E operand \in Operands : Lt(operand)
    \/ \E operand \in Operands : Le(operand)
    \/ \E operand \in Operands : Gt(operand)
    \/ \E operand \in Operands : Ge(operand)
    \/ Precision
    \/ UtmZone
    \/ UtmLetter
    \/ EastingLetter
    \/ NorthingLetter

Spec == Init /\ [][Next]_vars

\* tokens the constructor accepts
ValidTokens == {t \in Tokens : MGRS_init(t).outcome = "ok"}

ValidZoneInputs == ZoneInputs \cap (1..MaxZone)

ValidPrecisionInputs == EncodePrecisionInputs \cap (0..MaxPrecision)

\* The calls that yield references, on arguments the encoders accept, and
\* with_precision at every requested precision
NextReference ==
    \/ \E token \in ValidTokens : Construct(token)
    \/ \E p \in PrecisionInputs : WithPrecision(p)
    \/ \E zone \in ValidZoneInputs, hemisphere \in HemisphereInputs, en \in ProjectedSamples,
          p \in ValidPrecisionInputs : FromUtm(zone, hemisphere, en[1], en[2], p)
    \/ \E g \in GeoInputs, p \in ValidPrecisionInputs :
          FromLatLon(IF g[3] THEN g[1] ELSE Deg(g[1]),
                     IF g[3] THEN g[2] ELSE Deg(g[2]), g[3], p)
    \/ Precision
    \/ UtmZone
    \/ UtmLetter
    \/ EastingLetter
    \/ NorthingLetter

SpecReference == Init /\ [][NextReference]_vars

NextEncode ==
    \/ \E zone \in ZoneInputs, hemisphere \in HemisphereInputs, en \in ProjectedSamples,
          p \in EncodePrecisionInputs : FromUtm(zone, hemisphere, en[1], en[2], p)
    \/ \E g \in GeoInputs, p \in EncodePrecisionInputs :
          FromLatLon(IF g[3] THEN g[1] ELSE Deg(g[1]),
                     IF g[3] THEN g[2] ELSE Deg(g[2]), g[3], p)

SpecEncode == Init /\ [][NextEncode]_vars

NextDecode ==
    \/ \E token \in Tokens : Construct(token)
    \/ \E token \in Tokens : IsValid(token)
    \/ ToUtm

SpecDecode == Init /\ [][NextDecode]_vars

NextCompare ==
    \/ \E token \in Tokens : Construct(token)
    \/ \E p \in PrecisionInputs : WithPrecision(p)
    \/ \E operand \in Operands : Eq(operand)
    \/ \E operand \in Operands : Lt(operand)
    \/ \E operand \in Operands : Le(operand)
    \/ \E operand \in Operands : Gt(operand)
    \/ \E operand \in Operands : Ge(operand)

SpecCompare == Init /\ [][NextCompare]_vars

(***************************************************************************)
(* Claims                                                                  *)
(***************************************************************************)
\* the latitude, longitude of a from_lat_lon call in angle units
CallLatitude == IF res.args.in_degrees THEN TO_RADIANS(res.args.latitude) ELSE res.args.latitude

CallLongitude ==
    IF res.args.in_degrees THEN TO_RADIANS(res.args.longitude) ELSE res.args.longitude

\* C1: with_precision(ref, p2) for 0 <= p2 < ref.precision returns a reference
\* at precision p2 with the zone, band, column and row letters of ref, whose
\* easting digits are the first p2 easting digits of ref and whose northing
\* digits are the first p2 northing digits of ref.
C1_TruncatesEachDigitRun ==
    (/\ res.op = "with_precision"
     /\ res.args.precision >= 0
     /\ res.args.precision < DecodeReference(res.args.self).precision)
    => /\ res.outcome = "ok"
       /\ \E a \in {DecodeReference(res.args.self)}, b \in {DecodeReference(res.value)} :
             /\ b.err = NoError
             /\ b.precision = res.args.precision
             /\ <<b.zone, b.band, b.col, b.row>> = <<a.zone, a.band, a.col, a.row>>
             /\ b.eastingDigits = SubSeq(a.eastingDigits, 1, res.args.precision)
             /\ b.northingDigits = SubSeq(a.northingDigits, 1, res.args.precision)

\* C2: with_precision(ref, p2) for p2 above the precision of ref fails with the
\* invalid-precision error (ValueError "Cannot increase precision"), returns
\* no reference, and ref is the same reference afterwards.
C2_IncreaseRejected ==
    (/\ res.op = "with_precision"
     /\ res.args.precision > DecodeReference(res.args.self).precision)
    => /\ res.outcome = "ValueError"
       /\ res.kinds = {"Cannot increase precision"}
       /\ res.value = <<>>
       /\ ref = res.args.self

C2_Witness ==
    /\ res.op = "with_precision"
    /\ res.args.self = <<"3", "1", "U", "D", "Q", "1", "2", "3", "4">>
    /\ res.args.precision = 3
    /\ res.outcome = "ValueError"

\* C3: for 0 <= p <= ref.precision, with_precision(ref, p) succeeds, and
\* with_precision of its result at the same p succeeds and is equal to it
\* (__eq__ answers True, and the strings are the same).
C3_Idempotent ==
    (/\ res.op = "with_precision"
     /\ res.args.precision >= 0
     /\ res.args.precision <= DecodeReference(res.args.self).precision)
    => /\ res.outcome = "ok"
       /\ \E again \in {with_precision(res.value, res.args.precision)} :
             /\ again.outcome = "ok"
             /\ MGRS_eq(again.value, Obj(res.value)) = Flag(TRUE)
             /\ again.value = res.value

C3_Witness ==
    /\ res.op = "with_precision"
    /\ res.outcome = "ok"
    /\ res.args.precision = 2
    /\ DecodeReference(res.args.self).precision = 5
    /\ Len(res.value) = 9

\* C4: from_lat_lon at a latitude above 84 N (up to 90), a valid longitude and
\* a precision in [0, 5] returns a reference.
C4_PolarReturnsReference ==
    (/\ res.op = "from_lat_lon"
     /\ CallLatitude > Deg(UtmNorthLimit)
     /\ CallLatitude <= Deg(90)
     /\ CallLongitude >= Deg(-180)
     /\ CallLongitude <= Deg(180)
     /\ res.args.precision \in 0..MaxPrecision)
    => res.outcome = "ok"

\* the token is structurally invalid: too short, of a wrong length, with I or O
\* among its letters, or with a non-digit in its digit run
StructurallyInvalid(t) ==
    \/ Len(t) < 5
    \/ Len(t) \notin {5 + 2 * k : k \in 0..MaxPrecision}
    \/ \E i \in 3..5 : t[i] \in {"I", "O"}
    \/ \E i \in 6..Len(t) : ~IsDigit(t[i])

\* C6: for a structurally invalid token, MGRS(token) fails with the
\* malformed-reference error and binds no object, and is_valid(token) returns
\* False without raising.
C6_MalformedRejected ==
    /\ (res.op = "MGRS" /\ StructurallyInvalid(res.args.mgrs))
       => /\ res.outcome = "MGRSError"
          /\ res.kinds = {"MalformedReference"}
          /\ res.value = <<>>
          /\ ref # res.args.mgrs
    /\ (res.op = "is_valid" /\ StructurallyInvalid(res.args.mgrs))
       => res = Call("is_valid", res.args, Flag(FALSE))

C6_Witness ==
    /\ res.op = "is_valid"
    /\ res.args.mgrs = <<"3", "1", "Q", "D", "O">>
    /\ res.value = FALSE

\* C7: from_utm and from_lat_lon with a precision outside [0, 5] fail with the
\* invalid-precision error, from_utm with a zone outside [1, 60] fails with the
\* invalid-zone error, and a failing call returns nothing (no reference, not
\* even an empty one) and binds nothing.
C7_EncodersValidate ==
    (res.op \in {"from_utm", "from_lat_lon"})
    => /\ (res.args.precision \notin 0..MaxPrecision)
          => (res.outcome = "MGRSError" /\ "InvalidPrecision" \in res.kinds)
       /\ (res.op = "from_utm" /\ res.args.zone \notin 1..MaxZone)
          => (res.outcome = "MGRSError" /\ "InvalidZone" \in res.kinds)
       /\ (res.outcome # "ok") => (res.value = <<>> /\ ref # <<>>)
       /\ (res.outcome = "ok") => (ref = res.value /\ res.args.precision \in 0..MaxPrecision)

C7_Witness ==
    /\ res.op = "from_utm"
    /\ res.args.zone = 61
    /\ res.args.precision = 6
    /\ res.kinds = {"InvalidZone", "InvalidPrecision"}

\* C8: every constructed reference has a precision property in [0, 5] that is
\* the number of its easting digits and of its northing digits, a string of
\* length 5 + 2 * precision, and utm_zone, utm_letter, easting_letter and
\* northing_letter equal to the zone, band, column and row the decoder parsed.
C8_ReferenceInvariant ==
    (ref # None)
    => \E d \in {DecodeReference(ref)} :
          /\ d.err = NoError
          /\ precision(ref) \in 0..MaxPrecision
          /\ precision(ref) = Len(d.eastingDigits)
          /\ precision(ref) = Len(d.northingDigits)
          /\ Len(ref) = 5 + 2 * precision(ref)
          /\ utm_zone(ref) = Return(d.zone)
          /\ utm_letter(ref) = Return(d.band)
          /\ easting_letter(ref) = Return(d.col)
          /\ northing_letter(ref) = Return(d.row)

C8_Witness ==
    /\ res.op = "utm_zone"
    /\ res.value = 32
    /\ res.args.self = ref
    /\ DecodeReference(ref).eastingDigits = <<"0", "0">>

\* C9: a == b holds iff a.mgrs and b.mgrs are the same string, hence iff both
\* a <= b and b <= a hold.
C9_EqualityIsStringEquality ==
    (res.op = "eq" /\ res.outcome = "ok")
    => /\ res.value = (res.args.self = res.args.other.mgrs)
       /\ res.value = (/\ MGRS_le(res.args.self, res.args.other).value
                       /\ MGRS_le(res.args.other.mgrs, Obj(res.args.self)).value)

\* C10: with_precision(ref, p) for p < 0 fails with an error and returns no
\* reference (in particular none made of a shortened prefix of the string).
C10_NegativeRejected ==
    (res.op = "with_precision" /\ res.args.precision < 0)
    => /\ res.outcome # "ok"
       /\ res.value = <<>>
       /\ ref = res.args.self

C10_Witness ==
    /\ res.op = "with_precision"
    /\ res.args.precision = -3
    /\ Len(res.args.self) = 15
    /\ res.outcome = "MGRSError"

====
